---- MODULE Spec2Model ----
(***************************************************************************)
(* A model of the 0pa operation builder (src/src/index.ts): the builder    *)
(* chain Opa / op -> input(schema) -> handler(fn) -> Operation, and the    *)
(* two entry points of an Operation, execute (validate, then invoke) and   *)
(* handler (invoke directly).  Schemas, handlers and contexts are the      *)
(* caller's; they are drawn from small tables modelled on the tests.       *)
(***************************************************************************)
EXTENDS Integers, Sequences, FiniteSets, TLC

VARIABLES
    heap,      \* the builder objects and Operations made so far, by reference
    ctx,       \* the caller's context objects, by reference: their mutable fields
    calls,     \* the execute / handler calls made so far, each with its position
    writes     \* how many times the caller has written to a context

vars == <<heap, ctx, calls, writes>>

-----------------------------------------------------------------------------
(* Bounds *)

\* how many objects of each class (builders, stages, Operations) the caller makes
MaxPerClass == 1
\* how many execute / handler calls the caller makes
MaxCalls == 2
\* how many times the caller itself writes to a context field
MaxWrites == 1
\* how many objects of each class a caller who reuses builders makes
MaxReuse == 2

-----------------------------------------------------------------------------
(* JavaScript values *)

\* an optional array member: undefined, or an array (an empty one included)
Undefined == [tag |-> "undefined", items |-> <<>>]
Arr(s) == [tag |-> "array", items |-> s]

\* `if (v)` for such a member: undefined is falsy, every array is truthy
Truthy(v) == v.tag # "undefined"

\* a PropertyKey of an issue's path: a string, a number or a symbol
StrKey(s) == [t |-> "string", s |-> s, n |-> 0]
NumKey(n) == [t |-> "number", s |-> "", n |-> n]
SymKey(s) == [t |-> "symbol", s |-> s, n |-> 0]

\* the context argument of a builder: a reference to a caller's object, or undefined
CtxRefs == {"ctxA", "ctxB"}
NoCtx == "undefined"

\* the raw inputs the caller passes
Inputs == {0, 1, 12}

\* an Error object: its constructor's name, its message, its own `issues` member
Err(name, message, issues) == [name |-> name, message |-> message, issues |-> issues]
NoErr == Err("", "", Undefined)

-----------------------------------------------------------------------------
(* JSON.stringify(value, null, 2) of an issues array *)

Quote(s) == "\"" \o s \o "\""

\* a path key inside an array: a symbol is not JSON and is written null
JsonKey(k) ==
    CASE k.t = "string" -> Quote(k.s)
      [] k.t = "number" -> ToString(k.n)
      [] OTHER -> "null"

RECURSIVE JoinLines(_, _)
\* the elements of a non-empty array or object, one per line at indentation `ind`
JoinLines(parts, ind) ==
    IF Len(parts) = 1 THEN ind \o parts[1]
    ELSE ind \o parts[1] \o ",\n" \o JoinLines(Tail(parts), ind)

JsonArray(parts, ind) ==
    IF parts = <<>> THEN "[]"
    ELSE "[\n" \o JoinLines(parts, ind \o "  ") \o "\n" \o ind \o "]"

JsonObject(members, ind) ==
    IF members = <<>> THEN "{}"
    ELSE "{\n" \o JoinLines(members, ind \o "  ") \o "\n" \o ind \o "}"

\* one issue {message, path?}: a member whose value is undefined is left out
JsonIssue(i, ind) ==
    JsonObject(
        <<Quote("message") \o ": " \o Quote(i.message)>> \o
        (IF i.path.tag = "undefined" THEN <<>>
         ELSE <<Quote("path") \o ": " \o
                JsonArray([k \in 1..Len(i.path.items) |-> JsonKey(i.path.items[k])],
                          ind \o "  ")>>),
        ind)

JSONStringify(issues) ==
    JsonArray([k \in 1..Len(issues) |-> JsonIssue(issues[k], "  ")], "")

-----------------------------------------------------------------------------
(* The caller's schemas: '~standard'.validate *)

Issue(message, path) == [message |-> message, path |-> path]

\* a validation result {value} or {issues}, handed back at once or as a Promise;
\* `thrown` is the error of a validate that threw, or whose Promise rejected,
\* instead
Success(v, promise) ==
    [promise |-> promise, issues |-> Undefined, value |-> v, thrown |-> NoErr]
Failure(issues, promise) ==
    [promise |-> promise, issues |-> Arr(issues), value |-> 0, thrown |-> NoErr]
Raised(e, promise) ==
    [promise |-> promise, issues |-> Undefined, value |-> 0, thrown |-> e]
NoResult == [promise |-> FALSE, issues |-> Undefined, value |-> -1, thrown |-> NoErr]
\* the value member of a result that has none
UndefinedValue == -1

\* "trim": a synchronous schema that transforms (12 becomes 2) and then wants >= 1
\* "user": an asynchronous schema that accepts >= 1 unchanged
Schemas == {"trim", "user"}
NoSchema == "none"

\* adapters that break the contract on input 0 and accept every other input:
\* "bomb":  a synchronous validate that throws
\* "flaky": a validate whose Promise rejects
RaisingSchemas == {"bomb", "flaky"}

\* adapters whose result for the input 0 is not {value} or {issues: [...]}, and
\* that accept every other input:
\* "empty":   {issues: []}
\* "both":    {value: 0, issues: [{message: 'odd'}]}
\* "neither": {}
EdgeSchemas == {"empty", "both", "neither"}

AdapterThrow == Err("RangeError", "adapter threw", Undefined)
AdapterReject == Err("Error", "adapter rejected", Undefined)

Validate(schema, input) ==
    CASE schema = "trim" ->
            IF input % 10 >= 1 THEN Success(input % 10, FALSE)
            ELSE Failure(<<Issue("min_length", Undefined)>>, FALSE)
      [] schema = "bomb" ->
            IF input = 0 THEN Raised(AdapterThrow, FALSE) ELSE Success(input, FALSE)
      [] schema = "flaky" ->
            IF input = 0 THEN Raised(AdapterReject, TRUE) ELSE Success(input, TRUE)
      [] schema = "empty" ->
            IF input = 0 THEN Failure(<<>>, FALSE) ELSE Success(input, FALSE)
      [] schema = "both" ->
            IF input = 0
            THEN [Failure(<<Issue("odd", Undefined)>>, FALSE) EXCEPT !.value = input]
            ELSE Success(input, FALSE)
      [] schema = "neither" ->
            IF input = 0 THEN Success(UndefinedValue, FALSE) ELSE Success(input, FALSE)
      [] OTHER ->
            IF input >= 1 THEN Success(input, TRUE)
            ELSE Failure(<<Issue("required", Arr(<<StrKey("user"), SymKey("id")>>)),
                           Issue("invalid_type", Arr(<<StrKey("items"), NumKey(0)>>))>>,
                         TRUE)

-----------------------------------------------------------------------------
(* The caller's handler functions, as the tests write them *)

\* the settled or pending state of a Promise
Pending == [kind |-> "pending", value |-> 0, err |-> NoErr]
Resolved(v) == [kind |-> "ok", value |-> v, err |-> NoErr]
Rejected(e) == [kind |-> "err", value |-> 0, err |-> e]
\* a call that did not return: it threw e synchronously
Thrown(e) == [kind |-> "throw", value |-> 0, err |-> e]

\* the argument object {input} or {input, ctx}
Args(input, hasCtx, c) == [input |-> input, hasCtx |-> hasCtx, ctx |-> c]
NoArgs == Args(-1, FALSE, NoCtx)

\* "double": async ({input}) => input * 2, throwing 'Sync error' on input 2
\* "delay":  awaits a timer, then rejects with 'Timeout exceeded' on input 2,
\*           else returns a result made from its input
\* "push":   awaits a timer, then ctx.counter++, ctx.results.push(input),
\*           and returns the counter
Handlers == {"double", "delay", "push"}
\* "echo":   async ({input, schema, ctx}) => { console.log(ctx); return input }
ExampleHandlers == {"echo", "delay"}
\* "strict": a function that is not async: ({input}) => { if (input >= 10) throw
\*           new Error('Too large'); return Promise.resolve(input) }
SyncHandlers == {"strict"}
NoHandler == "none"

SyncError == Err("Error", "Sync error", Undefined)
TimeoutError == Err("Error", "Timeout exceeded", Undefined)
TooLargeError == Err("Error", "Too large", Undefined)
\* reading a property of an undefined ctx
TypeError == Err("TypeError", "Cannot read properties of undefined", Undefined)

\* what a handler does from its invocation to its first suspension (or its end):
\* the state of the Promise it returns, and the contexts as it leaves them
HandlerStart(fn, args, cx) ==
    CASE fn = "double" ->
            [out |-> IF args.input = UndefinedValue THEN Rejected(TypeError)
                     ELSE IF args.input = 2 THEN Rejected(SyncError)
                     ELSE Resolved(args.input * 2),
             ctx |-> cx]
      [] fn = "echo" -> [out |-> Resolved(args.input), ctx |-> cx]
      [] fn = "strict" ->
            [out |-> IF args.input >= 10 THEN Thrown(TooLargeError)
                     ELSE Resolved(args.input),
             ctx |-> cx]
      [] OTHER -> [out |-> Pending, ctx |-> cx]

\* what a suspended handler does when it is resumed
HandlerFinish(fn, args, cx) ==
    CASE fn = "delay" ->
            [out |-> IF args.input = 2 THEN Rejected(TimeoutError)
                     ELSE Resolved(args.input + 100),
             ctx |-> cx]
      [] OTHER ->
            IF args.ctx = NoCtx THEN [out |-> Rejected(TypeError), ctx |-> cx]
            ELSE [out |-> Resolved(cx[args.ctx].counter + 1),
                  ctx |-> [cx EXCEPT ![args.ctx].counter = @ + 1,
                                     ![args.ctx].results = Append(@, args.input)]]

-----------------------------------------------------------------------------
(* The builder chain *)

\* An object is known by the calls that made it: <<"op">>, or its maker's
\* reference followed by the call and that call's ordinal, so that two calls
\* of one method on one object make two objects.
Obj(cls, schema, fn, context) ==
    [cls |-> cls, _schema |-> schema, _handler |-> fn, _context |-> context]

Refs == DOMAIN heap

\* the reference of the object that the next call `call` on `maker` returns
NewRef(maker, call) ==
    Append(maker,
           call \o "#" \o
           ToString(1 + Cardinality({n \in 1..Cardinality(Refs) :
                                        Append(maker, call \o "#" \o ToString(n)) \in Refs})))

\* new X(...): the heap with one more object, every other object as it was
New(ref, obj) == [o \in Refs \cup {ref} |-> IF o = ref THEN obj ELSE heap[o]]

OfClass(cls) == {o \in Refs : heap[o].cls = cls}

\* the caller may make one more object of class `cls`, up to `max` of them
Room(cls, max) == Cardinality(OfClass(cls) \ {<<"op">>}) < max

\* the object whose method made `ref` (<<>> for op and for the static calls)
Maker(ref) == SubSeq(ref, 1, Len(ref) - 1)

\* export const op = new OperationBuilderImpl()
op == <<"op">>

\* Opa.create()
OpaCreate ==
    /\ heap' = New(NewRef(<<>>, "Opa.create()"), Obj("OpaBuilderImpl", NoSchema, NoHandler, NoCtx))
    /\ UNCHANGED <<ctx, calls, writes>>

\* Opa.context(ctx)
OpaContext(c) ==
    /\ heap' = New(NewRef(<<>>, "Opa.context(" \o c \o ")"),
                   Obj("OpaContextBuilderImpl", NoSchema, NoHandler, c))
    /\ UNCHANGED <<ctx, calls, writes>>

\* create() making a builder that does not carry the context
Create_NoContext(b) ==
    /\ heap' = New(NewRef(b, "create()"), Obj("OpaBuilderImpl", NoSchema, NoHandler, NoCtx))
    /\ UNCHANGED <<ctx, calls, writes>>

\* OpaContextBuilderImpl.create()
Create(b) ==
    /\ heap' = New(NewRef(b, "create()"),
                   Obj("OpaBuilderImpl", NoSchema, NoHandler, heap[b]._context))
    /\ UNCHANGED <<ctx, calls, writes>>

\* the operation property making a builder without the context
GetOperation_NoContext(b) ==
    /\ heap' = New(NewRef(b, "operation"),
                   Obj("OperationBuilderImpl", NoSchema, NoHandler, NoCtx))
    /\ UNCHANGED <<ctx, calls, writes>>

\* OpaBuilderImpl: get operation()
GetOperation(b) ==
    /\ heap' = New(NewRef(b, "operation"),
                   Obj("OperationBuilderImpl", NoSchema, NoHandler, heap[b]._context))
    /\ UNCHANGED <<ctx, calls, writes>>

\* input(schema) setting the schema on the builder's one stage, which the
\* stages returned earlier are too
Input_Mutating(b, schema) ==
    /\ heap' = [o \in Refs \cup {NewRef(b, "input(" \o schema \o ")")} |->
                   IF o = NewRef(b, "input(" \o schema \o ")")
                      \/ (o \in Refs /\ Maker(o) = b /\ heap[o].cls = "OperationWithInputImpl")
                   THEN Obj("OperationWithInputImpl", schema, NoHandler, heap[b]._context)
                   ELSE heap[o]]
    /\ UNCHANGED <<ctx, calls, writes>>

\* input(schema) returning a stage that has not kept the schema
Input_Unbound(b, schema) ==
    /\ heap' = New(NewRef(b, "input(" \o schema \o ")"),
                   Obj("OperationWithInputImpl", NoSchema, NoHandler, heap[b]._context))
    /\ UNCHANGED <<ctx, calls, writes>>

\* OperationBuilderImpl.input(schema)
Input(b, schema) ==
    /\ heap' = New(NewRef(b, "input(" \o schema \o ")"),
                   Obj("OperationWithInputImpl", schema, NoHandler, heap[b]._context))
    /\ UNCHANGED <<ctx, calls, writes>>

\* handler(fn) keeping the function on the stage, for all its Operations
Handler_OnStage(b, fn) ==
    /\ heap' = [o \in Refs \cup {NewRef(b, "handler(" \o fn \o ")")} |->
                   IF o = NewRef(b, "handler(" \o fn \o ")") \/ Maker(o) = b
                   THEN Obj("OperationImpl", heap[b]._schema, fn, heap[b]._context)
                   ELSE heap[o]]
    /\ UNCHANGED <<ctx, calls, writes>>

\* OperationWithInputImpl.handler(fn)
Handler(b, fn) ==
    /\ heap' = New(NewRef(b, "handler(" \o fn \o ")"),
                   Obj("OperationImpl", heap[b]._schema, fn, heap[b]._context))
    /\ UNCHANGED <<ctx, calls, writes>>

-----------------------------------------------------------------------------
(* An Operation's entry points *)

\* validateInput without `await result`: a Promise is taken for the result
AfterValidate_NoAwait(r) == "validated"

\* validateInput after the validate call: `if (result instanceof Promise) result =
\* await result` waits for a Promise, and goes on with a result that is there
AfterValidate(r) == IF r.promise THEN "validate" ELSE "validated"

\* validateInput without its issues check
ValidateInput_NoCheck(input, result) ==
    IF result.thrown # NoErr THEN Rejected(result.thrown)
    ELSE Resolved(result.value)

\* validateInput returning the input it was given instead of the result's value
ValidateInput_Raw(input, result) ==
    IF result.thrown # NoErr THEN Rejected(result.thrown)
    ELSE IF Truthy(result.issues)
    THEN Rejected(Err("Error", JSONStringify(result.issues.items), Undefined))
    ELSE Resolved(input)

\* validateInput catching what validate raised and going on with the raw input
ValidateInput_Recovering(input, result) ==
    IF result.thrown # NoErr THEN Resolved(input)
    ELSE IF Truthy(result.issues)
    THEN Rejected(Err("Error", JSONStringify(result.issues.items), Undefined))
    ELSE Resolved(result.value)

\* validateInput taking an empty issues array for success
ValidateInput_NonEmpty(input, result) ==
    IF result.thrown # NoErr THEN Rejected(result.thrown)
    ELSE IF Truthy(result.issues) /\ Len(result.issues.items) > 0
    THEN Rejected(Err("Error", JSONStringify(result.issues.items), Undefined))
    ELSE Resolved(result.value)

\* validateInput(schema, input), once validate has answered: what validate threw
\* (or its Promise rejected with) leaves the async function as its rejection;
\* issues are thrown as an Error whose message is the issues as JSON; else the
\* result's value is returned
ValidateInput(input, result) ==
    IF result.thrown # NoErr THEN Rejected(result.thrown)
    ELSE IF Truthy(result.issues)
    THEN Rejected(Err("Error", JSONStringify(result.issues.items), Undefined))
    ELSE Resolved(result.value)

\* execute forgetting the context it holds
HandlerArgs_NoCtx(validatedInput, context) == Args(validatedInput, FALSE, NoCtx)

\* the argument execute makes for the handler
HandlerArgs(validatedInput, context) ==
    IF context # NoCtx THEN Args(validatedInput, TRUE, context)
    ELSE Args(validatedInput, FALSE, NoCtx)

\* an entry point that wraps what the handler threw
Return_Wrapped(handled) ==
    IF handled.kind = "err"
    THEN Rejected(Err("Error", "Handler failed: " \o handled.err.message, Undefined))
    ELSE handled

\* an entry point that reports success when the handler has failed
Return_Swallowing(handled) ==
    IF handled.kind = "err" THEN Resolved(0) ELSE handled

\* a method that is not async: what the handler throws leaves the method as a throw
Return_NotAsync(handled) == handled

\* `return this._handler(...)` in an async method: the method's Promise takes
\* the state of the handler's Promise, and is rejected with what the handler
\* call threw
Return(handled) ==
    IF handled.kind = "throw" THEN Rejected(handled.err) ELSE handled

Call(o, entry, input) ==
    [op |-> o, entry |-> entry, input |-> input,
     given |-> NoArgs,        \* the args the caller handed to operation.handler
     pc |-> "validate",       \* validate | validated | running | settled
     validated |-> 0,         \* how often the schema's validate was called
     result |-> NoResult,     \* the validation result, once it is there
     invoked |-> 0,           \* how often the handler function was called
     args |-> NoArgs,         \* what it was called with
     handled |-> Pending,     \* the state of the Promise the handler returned
     out |-> Pending]         \* the state of the Promise the entry point returned

Running(out) == IF out.kind = "pending" THEN "running" ELSE "settled"

\* operation.execute(input), up to `await validateInput(...)`: validate is called,
\* and a result that is a Promise is awaited inside validateInput
Execute(o, input) ==
    /\ Len(calls) < MaxCalls
    /\ LET r == Validate(heap[o]._schema, input) IN
       calls' = Append(calls,
                       [Call(o, "execute", input) EXCEPT
                           !.validated = 1,
                           !.pc = AfterValidate(r),
                           !.result = IF r.promise THEN NoResult ELSE r])
    /\ UNCHANGED <<heap, ctx, writes>>

\* the Promise that validate returned resolves
ValidateResolve(i) ==
    /\ calls[i].pc = "validate"
    /\ calls' = [calls EXCEPT
                    ![i].result = Validate(heap[calls[i].op]._schema, calls[i].input),
                    ![i].pc = "validated"]
    /\ UNCHANGED <<heap, ctx, writes>>

\* one field of the Operation holding the input of the latest call
Local_Shared(i) == calls[Len(calls)]

\* the parameter and locals of one execute call: each call has its own
Local(i) == calls[i]

\* execute marking its Operation as broken when validation fails
ExecuteResume_Poisoning(i) ==
    /\ heap[calls[i].op].cls = "OperationImpl"
    /\ calls[i].pc = "validated"
    /\ LET o == heap[calls[i].op]
           v == ValidateInput(Local(i).input, Local(i).result)
           a == HandlerArgs(v.value, o._context)
           h == HandlerStart(o._handler, a, ctx)
       IN  IF v.kind = "err"
           THEN /\ calls' = [calls EXCEPT ![i].out = v, ![i].pc = "settled"]
                /\ ctx' = ctx
                /\ heap' = [heap EXCEPT ![calls[i].op]._handler = NoHandler]
           ELSE /\ calls' = [calls EXCEPT
                                ![i].invoked = @ + 1,
                                ![i].args = a,
                                ![i].handled = h.out,
                                ![i].out = Return(h.out),
                                ![i].pc = Running(h.out)]
                /\ ctx' = h.ctx
                /\ heap' = heap
    /\ UNCHANGED writes

\* execute losing the failure of validateInput: its Promise is never settled
ExecuteResume_Dropping(i) ==
    /\ heap[calls[i].op].cls = "OperationImpl"
    /\ calls[i].pc = "validated"
    /\ LET o == heap[calls[i].op]
           v == ValidateInput(Local(i).input, Local(i).result)
           a == HandlerArgs(v.value, o._context)
           h == HandlerStart(o._handler, a, ctx)
       IN  IF v.kind = "err"
           THEN /\ calls' = [calls EXCEPT ![i].pc = "settled"]
                /\ ctx' = ctx
           ELSE /\ calls' = [calls EXCEPT
                                ![i].invoked = @ + 1,
                                ![i].args = a,
                                ![i].handled = h.out,
                                ![i].out = Return(h.out),
                                ![i].pc = Running(h.out)]
                /\ ctx' = h.ctx
    /\ UNCHANGED <<heap, writes>>

\* execute answering with a value of its own instead of the handler's result
ExecuteResume_Constant(i) ==
    /\ heap[calls[i].op].cls = "OperationImpl"
    /\ calls[i].pc = "validated"
    /\ LET o == heap[calls[i].op]
           v == ValidateInput(Local(i).input, Local(i).result)
           a == HandlerArgs(v.value, o._context)
           h == HandlerStart(o._handler, a, ctx)
       IN  IF v.kind = "err"
           THEN /\ calls' = [calls EXCEPT ![i].out = v, ![i].pc = "settled"]
                /\ ctx' = ctx
           ELSE /\ calls' = [calls EXCEPT
                                ![i].invoked = @ + 1,
                                ![i].args = a,
                                ![i].handled = h.out,
                                ![i].out = IF h.out.kind = "ok" THEN Resolved(0)
                                           ELSE Return(h.out),
                                ![i].pc = Running(h.out)]
                /\ ctx' = h.ctx
    /\ UNCHANGED <<heap, writes>>

\* execute resumes after `await validateInput(...)`: it rejects with what
\* validateInput threw, or calls the handler, which runs to its first suspension
ExecuteResume(i) ==
    /\ heap[calls[i].op].cls = "OperationImpl"
    /\ calls[i].pc = "validated"
    /\ LET o == heap[calls[i].op]
           v == ValidateInput(Local(i).input, Local(i).result)
           a == HandlerArgs(v.value, o._context)
           h == HandlerStart(o._handler, a, ctx)
       IN  IF v.kind = "err"
           THEN /\ calls' = [calls EXCEPT ![i].out = v, ![i].pc = "settled"]
                /\ ctx' = ctx
           ELSE /\ calls' = [calls EXCEPT
                                ![i].invoked = @ + 1,
                                ![i].args = a,
                                ![i].handled = h.out,
                                ![i].out = Return(h.out),
                                ![i].pc = Running(h.out)]
                /\ ctx' = h.ctx
    /\ UNCHANGED <<heap, writes>>

\* a suspended handler resumes and runs to its end; its Promise settles, and
\* with it the Promise of the entry point that returned it
HandlerResume(i) ==
    /\ calls[i].pc = "running"
    /\ LET h == HandlerFinish(heap[calls[i].op]._handler, calls[i].args, ctx) IN
       /\ calls' = [calls EXCEPT
                       ![i].handled = h.out,
                       ![i].out = Return(h.out),
                       ![i].pc = "settled"]
       /\ ctx' = h.ctx
    /\ UNCHANGED <<heap, writes>>

\* handler(args) putting the Operation's own context into the args
DirectCallArgs_Injecting(args, context) ==
    IF context # NoCtx THEN Args(args.input, TRUE, context) ELSE args

\* `this._handler(args)`: the caller's args object is what the handler gets
DirectCallArgs(args, context) == args

\* operation.handler(args) keeping the caller's ctx as the Operation's context
HandlerDirect_Rebinding(o, a) ==
    /\ Len(calls) < MaxCalls
    /\ LET h == HandlerStart(heap[o]._handler, DirectCallArgs(a, heap[o]._context), ctx) IN
       /\ calls' = Append(calls,
                          [Call(o, "handler", a.input) EXCEPT
                              !.given = a,
                              !.invoked = 1,
                              !.args = DirectCallArgs(a, heap[o]._context),
                              !.handled = h.out,
                              !.out = Return(h.out),
                              !.pc = Running(h.out)])
       /\ ctx' = h.ctx
    /\ heap' = [heap EXCEPT ![o]._context = a.ctx]
    /\ UNCHANGED writes

\* operation.handler(args) validating as execute does
HandlerDirect_Validating(o, a) ==
    /\ Len(calls) < MaxCalls
    /\ LET r == Validate(heap[o]._schema, a.input) IN
       calls' = Append(calls,
                       [Call(o, "handler", a.input) EXCEPT
                           !.given = a,
                           !.validated = 1,
                           !.pc = AfterValidate(r),
                           !.result = IF r.promise THEN NoResult ELSE r])
    /\ UNCHANGED <<heap, ctx, writes>>

\* operation.handler(args): the handler is called with the caller's args
HandlerDirect(o, a) ==
    /\ Len(calls) < MaxCalls
    /\ LET h == HandlerStart(heap[o]._handler, DirectCallArgs(a, heap[o]._context), ctx) IN
       /\ calls' = Append(calls,
                          [Call(o, "handler", a.input) EXCEPT
                              !.given = a,
                              !.invoked = 1,
                              !.args = DirectCallArgs(a, heap[o]._context),
                              !.handled = h.out,
                              !.out = Return(h.out),
                              !.pc = Running(h.out)])
       /\ ctx' = h.ctx
    /\ UNCHANGED <<heap, writes>>

\* the caller writes a field of a context object: context.counter = 10
WriteContext(c) ==
    /\ writes < MaxWrites
    /\ writes' = writes + 1
    /\ ctx' = [ctx EXCEPT ![c].counter = 10]
    /\ UNCHANGED <<heap, calls>>

\* a schema property that hands out a wrapper of the schema
GetSchema_Wrapped(o) == "wrapped(" \o heap[o]._schema \o ")"

\* operation.schema: the getter returns the _schema field
GetSchema(o) == heap[o]._schema

\* the args a caller may hand to operation.handler
DirectArgs ==
    {Args(x, FALSE, NoCtx) : x \in Inputs} \cup
    {Args(x, TRUE, c) : x \in Inputs, c \in CtxRefs}

-----------------------------------------------------------------------------
Init ==
    /\ heap = [o \in {op} |-> Obj("OperationBuilderImpl", NoSchema, NoHandler, NoCtx)]
    /\ ctx = [c \in CtxRefs |-> [counter |-> 0, results |-> <<>>]]
    /\ calls = <<>>
    /\ writes = 0

Build ==
    \/ Room("OpaBuilderImpl", MaxPerClass) /\ OpaCreate
    \/ Room("OpaContextBuilderImpl", MaxPerClass) /\
           \E c \in CtxRefs \cup {NoCtx} : OpaContext(c)
    \/ Room("OpaBuilderImpl", MaxPerClass) /\
           \E b \in OfClass("OpaContextBuilderImpl") : Create(b)
    \/ Room("OperationBuilderImpl", MaxPerClass) /\
           \E b \in OfClass("OpaBuilderImpl") : GetOperation(b)
    \/ Room("OperationWithInputImpl", MaxPerClass) /\
           \E b \in OfClass("OperationBuilderImpl"), s \in Schemas : Input(b, s)
    \/ Room("OperationImpl", MaxPerClass) /\
           \E b \in OfClass("OperationWithInputImpl"), fn \in Handlers : Handler(b, fn)

Run ==
    \/ \E o \in OfClass("OperationImpl"), x \in Inputs : Execute(o, x)
    \/ \E i \in 1..Len(calls) : ValidateResolve(i)
    \/ \E i \in 1..Len(calls) : ExecuteResume(i)
    \/ \E i \in 1..Len(calls) : HandlerResume(i)
    \/ \E o \in OfClass("OperationImpl"), a \in DirectArgs : HandlerDirect(o, a)
    \/ \E c \in CtxRefs : WriteContext(c)

Next == Build \/ Run

Spec == Init /\ [][Next]_vars

\* The continuation of `await validateInput(...)` is a job of the microtask
\* queue: once the validation result is there, it runs.
SpecLive == Spec /\ WF_vars(\E i \in 1..Len(calls) : ExecuteResume(i))

\* A caller who reuses the stages of the builder chain: input called again on
\* one builder (the exported op), handler called again on one stage.
Rebuild ==
    \/ Room("OperationWithInputImpl", MaxReuse) /\
           \E b \in OfClass("OperationBuilderImpl"), s \in Schemas : Input(b, s)
    \/ Room("OperationImpl", MaxReuse) /\
           \E b \in OfClass("OperationWithInputImpl"), fn \in Handlers : Handler(b, fn)

NextReuse == Rebuild \/ Run

SpecReuse == Init /\ [][NextReuse]_vars

\* A caller whose schema may be an adapter that breaks the contract
BuildOnAdapter ==
    \/ Room("OperationWithInputImpl", MaxPerClass) /\
           \E b \in OfClass("OperationBuilderImpl"), s \in Schemas \cup RaisingSchemas :
               Input(b, s)
    \/ Room("OperationImpl", MaxPerClass) /\
           \E b \in OfClass("OperationWithInputImpl"), fn \in Handlers \cup SyncHandlers :
               Handler(b, fn)

NextAdapter == BuildOnAdapter \/ Run

SpecAdapter == Init /\ [][NextAdapter]_vars

\* The continuation of `await validateInput(...)` is a job of the microtask
\* queue; the schema's validate and the user's handler are taken to complete:
\* the Promise of a validate settles, a suspended handler runs to its end.
SpecSettle ==
    /\ SpecAdapter
    /\ WF_vars(\E i \in 1..Len(calls) : ValidateResolve(i))
    /\ WF_vars(\E i \in 1..Len(calls) : ExecuteResume(i))
    /\ WF_vars(\E i \in 1..Len(calls) : HandlerResume(i))

\* A caller who reuses one Opa.context handle: create() called on it again, the
\* operation property read again.
Recreate ==
    \/ Room("OpaContextBuilderImpl", MaxPerClass) /\
           \E c \in CtxRefs \cup {NoCtx} : OpaContext(c)
    \/ Room("OpaBuilderImpl", MaxReuse) /\
           \E b \in OfClass("OpaContextBuilderImpl") : Create(b)
    \/ Room("OperationBuilderImpl", MaxReuse) /\
           \E b \in OfClass("OpaBuilderImpl") : GetOperation(b)
    \/ Room("OperationWithInputImpl", MaxPerClass) /\
           \E b \in OfClass("OperationBuilderImpl"), s \in Schemas : Input(b, s)
    \/ Room("OperationImpl", MaxPerClass) /\
           \E b \in OfClass("OperationWithInputImpl"), fn \in Handlers : Handler(b, fn)

NextFactory == Recreate \/ Run

SpecFactory == Init /\ [][NextFactory]_vars

-----------------------------------------------------------------------------
(* The OpFactory variant of the library (src/unnamed/part_006): an operation
   is a function op(input), made by createOp *)

\* new ValidationError('Input validation failed', issues)
ValidationError(issues) == Err("ValidationError", "Input validation failed", Arr(issues))

\* Opa.context(ctx): new OpFactoryImpl(ctx)
OpFactoryContext(c) ==
    /\ heap' = New(NewRef(<<>>, "OpFactory.context(" \o c \o ")"),
                   Obj("OpFactoryImpl", NoSchema, NoHandler, c))
    /\ UNCHANGED <<ctx, calls, writes>>

\* OpFactoryImpl.create(): the object literal {operation: {input}}.  The literal
\* has an input method and nothing else: no member of it holds the factory's
\* context.
OpFactoryCreate(f) ==
    /\ heap' = New(NewRef(f, "create().operation"),
                   Obj("operation literal", NoSchema, NoHandler, NoCtx))
    /\ UNCHANGED <<ctx, calls, writes>>

\* operation.input(schema), a method of the literal: new OpBuilderImpl(schema,
\* this.context), where `this` is the literal the method was called on
OperationInput(l, schema) ==
    /\ heap' = New(NewRef(l, "input(" \o schema \o ")"),
                   Obj("OpBuilderImpl", schema, NoHandler, heap[l]._context))
    /\ UNCHANGED <<ctx, calls, writes>>

\* OpBuilderImpl.input(schema): new OpBuilderImpl(schema, this.context)
OpBuilderInput(b, schema) ==
    /\ heap' = New(NewRef(b, "input(" \o schema \o ")"),
                   Obj("OpBuilderImpl", schema, NoHandler, heap[b]._context))
    /\ UNCHANGED <<ctx, calls, writes>>

\* OpBuilderImpl.handler(fn): createOp(this.schema, fn, this.context)
OpBuilderHandler(b, fn) ==
    /\ heap' = New(NewRef(b, "handler(" \o fn \o ")"),
                   Obj("Op", heap[b]._schema, fn, heap[b]._context))
    /\ UNCHANGED <<ctx, calls, writes>>

\* createOp: the params of the handler; a context that is undefined gives {input}
OpParams(validatedInput, context) ==
    IF context = NoCtx THEN Args(validatedInput, FALSE, NoCtx)
    ELSE Args(validatedInput, TRUE, context)

\* createOp's op from the point where the validation result is there: issues
\* are thrown as a ValidationError, else the handler is called and runs to its
\* first suspension.  The call as it is left, and the contexts.
OpContinue(call, result) ==
    LET o == heap[call.op]
        a == OpParams(result.value, o._context)
        h == HandlerStart(o._handler, a, ctx)
    IN  IF result.thrown # NoErr
        THEN [call |-> [call EXCEPT !.result = result, !.pc = "settled",
                                    !.out = Rejected(result.thrown)],
              ctx |-> ctx]
        ELSE IF Truthy(result.issues)
        THEN [call |-> [call EXCEPT !.result = result, !.pc = "settled",
                                    !.out = Rejected(ValidationError(result.issues.items))],
              ctx |-> ctx]
        ELSE [call |-> [call EXCEPT !.result = result,
                                    !.invoked = @ + 1,
                                    !.args = a,
                                    !.handled = h.out,
                                    !.out = Return(h.out),
                                    !.pc = Running(h.out)],
              ctx |-> h.ctx]

\* op(input): validate is called; `result instanceof Promise ? await result :
\* result` suspends for a Promise only, and with a result that is there the
\* function goes on at once
OpCall(o, input) ==
    /\ Len(calls) < MaxCalls
    /\ LET r == Validate(heap[o]._schema, input)
           c == [Call(o, "op", input) EXCEPT !.validated = 1]
       IN  IF r.promise
           THEN /\ calls' = Append(calls, c)
                /\ ctx' = ctx
           ELSE /\ calls' = Append(calls, OpContinue(c, r).call)
                /\ ctx' = OpContinue(c, r).ctx
    /\ UNCHANGED <<heap, writes>>

\* op resumes after `await result`
OpResume(i) ==
    /\ calls[i].entry = "op"
    /\ calls[i].pc = "validated"
    /\ calls' = [calls EXCEPT ![i] = OpContinue(calls[i], calls[i].result).call]
    /\ ctx' = OpContinue(calls[i], calls[i].result).ctx
    /\ UNCHANGED <<heap, writes>>

BuildOp ==
    \/ Room("OpFactoryImpl", MaxPerClass) /\ \E c \in CtxRefs : OpFactoryContext(c)
    \/ Room("operation literal", MaxPerClass) /\
           \E f \in OfClass("OpFactoryImpl") : OpFactoryCreate(f)
    \/ Room("OpBuilderImpl", MaxPerClass) /\
           \E l \in OfClass("operation literal"), sc \in Schemas : OperationInput(l, sc)
    \/ Room("OpBuilderImpl", MaxReuse) /\
           \E b \in OfClass("OpBuilderImpl"), sc \in Schemas : OpBuilderInput(b, sc)
    \/ Room("Op", MaxPerClass) /\
           \E b \in OfClass("OpBuilderImpl"), fn \in Handlers : OpBuilderHandler(b, fn)

RunOp ==
    \/ \E o \in OfClass("Op"), x \in Inputs : OpCall(o, x)
    \/ \E i \in 1..Len(calls) : ValidateResolve(i)
    \/ \E i \in 1..Len(calls) : OpResume(i)
    \/ \E i \in 1..Len(calls) : HandlerResume(i)

NextOpFactory == BuildOp \/ RunOp

SpecOpFactory == Init /\ [][NextOpFactory]_vars

-----------------------------------------------------------------------------
(* defineOperation (src/src/operation.ts): an operation is the object literal
   {handler, schema, execute} *)

\* defineOperation(schema, handler)
DefineOperation(schema, fn) ==
    /\ heap' = New(NewRef(<<>>, "defineOperation(" \o schema \o ", " \o fn \o ")"),
                   Obj("Operation", schema, fn, NoCtx))
    /\ UNCHANGED <<ctx, calls, writes>>

\* the handler's params without the schema
DefineParams_Bare(input, schema) == Args(input, FALSE, NoCtx)

\* the handler's params {input, schema}: there is no ctx key
DefineParams(input, schema) ==
    [input |-> input, hasCtx |-> FALSE, ctx |-> NoCtx, schema |-> schema]

\* new Error(`Validation failed: ${JSON.stringify(result.issues, null, 2)}`)
ValidationFailedError(issues) ==
    Err("Error", "Validation failed: " \o JSONStringify(issues), Undefined)

\* execute from the point where the validation result is there: issues are
\* thrown as an Error, else the handler is called with the result's value and
\* runs to its first suspension; `await handler(...)` waits for its Promise.
\* The call as it is left, and the contexts.
DefinedContinue(call, result) ==
    LET o == heap[call.op]
        a == DefineParams(result.value, o._schema)
        h == HandlerStart(o._handler, a, ctx)
    IN  IF result.thrown # NoErr
        THEN [call |-> [call EXCEPT !.result = result, !.pc = "settled",
                                    !.out = Rejected(result.thrown)],
              ctx |-> ctx]
        ELSE IF Truthy(result.issues)
        THEN [call |-> [call EXCEPT !.result = result, !.pc = "settled",
                                    !.out = Rejected(ValidationFailedError(result.issues.items))],
              ctx |-> ctx]
        ELSE [call |-> [call EXCEPT !.result = result,
                                    !.invoked = @ + 1,
                                    !.args = a,
                                    !.handled = h.out,
                                    !.out = Return(h.out),
                                    !.pc = Running(h.out)],
              ctx |-> h.ctx]

\* operation.execute(input): validate is called; `if (result instanceof Promise)
\* result = await result` suspends for a Promise only
DefinedExecute(o, input) ==
    /\ Len(calls) < MaxCalls
    /\ LET r == Validate(heap[o]._schema, input)
           c == [Call(o, "execute", input) EXCEPT !.validated = 1]
       IN  IF r.promise
           THEN /\ calls' = Append(calls, c)
                /\ ctx' = ctx
           ELSE /\ calls' = Append(calls, DefinedContinue(c, r).call)
                /\ ctx' = DefinedContinue(c, r).ctx
    /\ UNCHANGED <<heap, writes>>

\* execute resumes after `await result`
DefinedResume(i) ==
    /\ heap[calls[i].op].cls = "Operation"
    /\ calls[i].pc = "validated"
    /\ calls' = [calls EXCEPT ![i] = DefinedContinue(calls[i], calls[i].result).call]
    /\ ctx' = DefinedContinue(calls[i], calls[i].result).ctx
    /\ UNCHANGED <<heap, writes>>

\* operation.handler(input), not an async function: what the user handler
\* returns for {input, schema} is handed back as it is
DefinedHandler(o, input) ==
    /\ Len(calls) < MaxCalls
    /\ LET a == DefineParams(input, heap[o]._schema)
           h == HandlerStart(heap[o]._handler, a, ctx)
       IN  /\ calls' = Append(calls,
                              [Call(o, "handler", input) EXCEPT
                                  !.invoked = 1,
                                  !.args = a,
                                  !.handled = h.out,
                                  !.out = h.out,
                                  !.pc = Running(h.out)])
           /\ ctx' = h.ctx
    /\ UNCHANGED <<heap, writes>>

BuildDefined ==
    Room("Operation", MaxPerClass) /\
        \E s \in Schemas, fn \in Handlers : DefineOperation(s, fn)

RunDefined ==
    \/ \E o \in OfClass("Operation"), x \in Inputs : DefinedExecute(o, x)
    \/ \E i \in 1..Len(calls) : ValidateResolve(i)
    \/ \E i \in 1..Len(calls) : DefinedResume(i)
    \/ \E i \in 1..Len(calls) : HandlerResume(i)
    \/ \E o \in OfClass("Operation"), x \in Inputs : DefinedHandler(o, x)

NextDefined == BuildDefined \/ RunDefined

SpecDefined == Init /\ [][NextDefined]_vars

\* handlers that do not suspend
EdgeHandlers == {"echo", "double"}

\* Callers of both libraries whose schema may be an adapter with an odd result
BuildOnEdge ==
    \/ Room("OperationWithInputImpl", MaxPerClass) /\
           \E b \in OfClass("OperationBuilderImpl"), s \in Schemas \cup EdgeSchemas :
               Input(b, s)
    \/ Room("OperationImpl", MaxPerClass) /\
           \E b \in OfClass("OperationWithInputImpl"), fn \in EdgeHandlers : Handler(b, fn)
    \/ Room("Operation", MaxPerClass) /\
           \E s \in Schemas \cup EdgeSchemas, fn \in EdgeHandlers : DefineOperation(s, fn)

RunOnEdge ==
    \/ \E o \in OfClass("OperationImpl"), x \in Inputs : Execute(o, x)
    \/ \E o \in OfClass("Operation"), x \in Inputs : DefinedExecute(o, x)
    \/ \E i \in 1..Len(calls) : ValidateResolve(i)
    \/ \E i \in 1..Len(calls) : ExecuteResume(i)
    \/ \E i \in 1..Len(calls) : DefinedResume(i)

NextEdge == BuildOnEdge \/ RunOnEdge

SpecEdge == Init /\ [][NextEdge]_vars

-----------------------------------------------------------------------------
(* withContext (src/src/context.ts): operations {schema, handler, execute}
   whose handler gets {input, schema, ctx} *)

\* JSON.stringify(value) of an issues array: no white space
RECURSIVE JoinCommas(_)
JoinCommas(parts) ==
    IF Len(parts) = 1 THEN parts[1]
    ELSE parts[1] \o "," \o JoinCommas(Tail(parts))

JsonList(open, parts, close) ==
    IF parts = <<>> THEN open \o close
    ELSE open \o JoinCommas(parts) \o close

JsonIssueCompact(i) ==
    JsonList("{",
             <<Quote("message") \o ":" \o Quote(i.message)>> \o
             (IF i.path.tag = "undefined" THEN <<>>
              ELSE <<Quote("path") \o ":" \o
                     JsonList("[",
                              [k \in 1..Len(i.path.items) |-> JsonKey(i.path.items[k])],
                              "]")>>),
             "}")

JSONStringifyCompact(issues) ==
    JsonList("[", [k \in 1..Len(issues) |-> JsonIssueCompact(issues[k])], "]")

\* a schema object that has no '~standard' member
PlainSchemas == {"plain"}

\* '~standard' in schema
HasStandard(schema) == schema \notin PlainSchemas

\* a context as a call hands it over: the object (by reference) and its members
\* at that moment; undefined and null have none
CtxValue(ref, fields) == [ref |-> ref, fields |-> fields]
NoFields == [k \in {} |-> 0]
NoExtra == CtxValue("undefined", NoFields)
NullExtra == CtxValue("null", NoFields)

\* the context arguments of the callers: none, null, an empty object, an object
\* with a key of its own ({db: ''} in example.ts), an object with a key that the
\* provided context has too
Extras ==
    {NoExtra, NullExtra,
     CtxValue("extraEmpty", NoFields),
     CtxValue("extraDb", [db |-> 7]),
     CtxValue("extraCounter", [counter |-> 5])}

\* `additionalCtx ? ... : ...`: undefined and null are falsy, every object is not
TruthyCtx(e) == e.ref \notin {"undefined", "null"}

\* Object.assign({}, p, e): a new object with the members of p, then those of e
ObjectAssign(p, e) ==
    [k \in DOMAIN p \cup DOMAIN e |-> IF k \in DOMAIN e THEN e[k] ELSE p[k]]

\* the object that the literal {} of call i's merge makes
NewObject(i) == "{} of call " \o ToString(i)

\* a merge in which the provided context wins
MergedCtx_ProvidedWins(provided, extra, i) ==
    IF TruthyCtx(extra)
    THEN CtxValue(NewObject(i), ObjectAssign(extra.fields, ctx[provided]))
    ELSE CtxValue(provided, ctx[provided])

\* additionalCtx ? Object.assign({}, providedContext, additionalCtx) : providedContext
MergedCtx(provided, extra, i) ==
    IF TruthyCtx(extra)
    THEN CtxValue(NewObject(i), ObjectAssign(ctx[provided], extra.fields))
    ELSE CtxValue(provided, ctx[provided])

\* a type-only operation keeping the ctx of its first call
TypedCtx_Sticky(extra, i) == IF i > 1 THEN calls[1].given.ctx ELSE extra

\* the type-only case: the ctx parameter of the call, as it is
TypedCtx(extra, i) == extra

\* the handler's params {input, schema, ctx}
ContextParams(input, schema, c) ==
    [input |-> input, hasCtx |-> TRUE, ctx |-> c, schema |-> schema]

\* validateInput validating a schema that has no '~standard' member as well
ContextValidateInput_Always(schema, input, result) ==
    IF ~HasStandard(schema)
    THEN Rejected(Err("TypeError", "Cannot read properties of undefined", Undefined))
    ELSE IF result.thrown # NoErr THEN Rejected(result.thrown)
    ELSE IF Truthy(result.issues)
    THEN Rejected(Err("Error",
                      "Validation failed: " \o JSONStringifyCompact(result.issues.items),
                      Undefined))
    ELSE Resolved(result.value)

\* validateInput(input) of both branches, once validate has answered (where it
\* was called): a schema without '~standard' gives the input back
ContextValidateInput(schema, input, result) ==
    IF ~HasStandard(schema) THEN Resolved(input)
    ELSE IF result.thrown # NoErr THEN Rejected(result.thrown)
    ELSE IF Truthy(result.issues)
    THEN Rejected(Err("Error",
                      "Validation failed: " \o JSONStringifyCompact(result.issues.items),
                      Undefined))
    ELSE Resolved(result.value)

\* withContext(defineOperation, providedContext): one of two functions
WithContext(c) ==
    /\ heap' = New(NewRef(<<>>, "withContext(defineOperation, " \o c \o ")"),
                   Obj(IF c # NoCtx THEN "createContextualOperation"
                       ELSE "createTypedContextualOperation",
                       NoSchema, NoHandler, c))
    /\ UNCHANGED <<ctx, calls, writes>>

\* createContextualOperation(schema, handler)
CreateContextualOperation(f, schema, fn) ==
    /\ heap' = New(NewRef(f, "(" \o schema \o ", " \o fn \o ")"),
                   Obj("ContextualOperation", schema, fn, heap[f]._context))
    /\ UNCHANGED <<ctx, calls, writes>>

\* createTypedContextualOperation(schema, handler)
CreateTypedContextualOperation(f, schema, fn) ==
    /\ heap' = New(NewRef(f, "(" \o schema \o ", " \o fn \o ")"),
                   Obj("TypedContextualOperation", schema, fn, NoCtx))
    /\ UNCHANGED <<ctx, calls, writes>>

\* execute(input, ctx) of both branches up to `await validateInput(input)`:
\* validate is called if the schema has a '~standard' member, and a result that
\* is a Promise is awaited
AwaitValidateInput(o, input, extra) ==
    LET s == heap[o]._schema
        r == Validate(s, input)
        c == [Call(o, "execute", input) EXCEPT !.given = Args(input, TRUE, extra)]
    IN  IF HasStandard(s)
        THEN [c EXCEPT !.validated = 1,
                       !.pc = AfterValidate(r),
                       !.result = IF r.promise THEN NoResult ELSE r]
        ELSE [c EXCEPT !.pc = "validated"]

\* the rest of execute, and handler: the user handler is called with params `a`
\* and runs to its first suspension; the async execute returns a Promise that
\* takes the state of the handler's, handler returns what the user handler returned
InvokeHandler(call, a, async) ==
    LET h == HandlerStart(heap[call.op]._handler, a, ctx) IN
    [call |-> [call EXCEPT !.invoked = @ + 1,
                           !.args = a,
                           !.handled = h.out,
                           !.out = IF async THEN Return(h.out) ELSE h.out,
                           !.pc = Running(h.out)],
     ctx |-> h.ctx]

\* execute(input, additionalCtx) where a context value was provided
ContextualExecute(o, input, extra) ==
    /\ Len(calls) < MaxCalls
    /\ calls' = Append(calls, AwaitValidateInput(o, input, extra))
    /\ UNCHANGED <<heap, ctx, writes>>

\* it resumes after `await validateInput(input)`
ContextualResume(i) ==
    /\ heap[calls[i].op].cls = "ContextualOperation"
    /\ calls[i].entry = "execute"
    /\ calls[i].pc = "validated"
    /\ LET o == heap[calls[i].op]
           v == ContextValidateInput(o._schema, calls[i].input, calls[i].result)
           a == ContextParams(v.value, o._schema,
                              MergedCtx(o._context, calls[i].given.ctx, i))
       IN  IF v.kind = "err"
           THEN /\ calls' = [calls EXCEPT ![i].out = v, ![i].pc = "settled"]
                /\ ctx' = ctx
           ELSE /\ calls' = [calls EXCEPT ![i] = InvokeHandler(calls[i], a, TRUE).call]
                /\ ctx' = InvokeHandler(calls[i], a, TRUE).ctx
    /\ UNCHANGED <<heap, writes>>

\* handler(input, additionalCtx) where a context value was provided: not an
\* async function, and no validation
ContextualHandler(o, input, extra) ==
    /\ Len(calls) < MaxCalls
    /\ LET i == Len(calls) + 1
           c == [Call(o, "handler", input) EXCEPT !.given = Args(input, TRUE, extra)]
           a == ContextParams(input, heap[o]._schema,
                              MergedCtx(heap[o]._context, extra, i))
       IN  /\ calls' = Append(calls, InvokeHandler(c, a, FALSE).call)
           /\ ctx' = InvokeHandler(c, a, FALSE).ctx
    /\ UNCHANGED <<heap, writes>>

\* execute(input, ctx) of the type-only case
TypedExecute(o, input, extra) ==
    /\ Len(calls) < MaxCalls
    /\ calls' = Append(calls, AwaitValidateInput(o, input, extra))
    /\ UNCHANGED <<heap, ctx, writes>>

\* it resumes after `await validateInput(input)`
TypedResume(i) ==
    /\ heap[calls[i].op].cls = "TypedContextualOperation"
    /\ calls[i].entry = "execute"
    /\ calls[i].pc = "validated"
    /\ LET o == heap[calls[i].op]
           v == ContextValidateInput(o._schema, calls[i].input, calls[i].result)
           a == ContextParams(v.value, o._schema, TypedCtx(calls[i].given.ctx, i))
       IN  IF v.kind = "err"
           THEN /\ calls' = [calls EXCEPT ![i].out = v, ![i].pc = "settled"]
                /\ ctx' = ctx
           ELSE /\ calls' = [calls EXCEPT ![i] = InvokeHandler(calls[i], a, TRUE).call]
                /\ ctx' = InvokeHandler(calls[i], a, TRUE).ctx
    /\ UNCHANGED <<heap, writes>>

\* handler(input, ctx) of the type-only case
TypedHandler(o, input, extra) ==
    /\ Len(calls) < MaxCalls
    /\ LET i == Len(calls) + 1
           c == [Call(o, "handler", input) EXCEPT !.given = Args(input, TRUE, extra)]
           a == ContextParams(input, heap[o]._schema, TypedCtx(extra, i))
       IN  /\ calls' = Append(calls, InvokeHandler(c, a, FALSE).call)
           /\ ctx' = InvokeHandler(c, a, FALSE).ctx
    /\ UNCHANGED <<heap, writes>>

\* the schemas and handlers of the callers of withContext
ContextSchemas == {"trim", "user"} \cup PlainSchemas

BuildContextual ==
    \/ Room("createContextualOperation", MaxPerClass) /\
           \E c \in CtxRefs : WithContext(c)
    \/ Room("ContextualOperation", MaxPerClass) /\
           \E f \in OfClass("createContextualOperation"),
              s \in ContextSchemas, fn \in ExampleHandlers :
               CreateContextualOperation(f, s, fn)

RunContextual ==
    \/ \E o \in OfClass("ContextualOperation"), x \in Inputs, e \in Extras :
           ContextualExecute(o, x, e)
    \/ \E o \in OfClass("ContextualOperation"), x \in Inputs, e \in Extras :
           ContextualHandler(o, x, e)
    \/ \E i \in 1..Len(calls) : ValidateResolve(i)
    \/ \E i \in 1..Len(calls) : ContextualResume(i)
    \/ \E i \in 1..Len(calls) : HandlerResume(i)
    \/ \E c \in CtxRefs : WriteContext(c)

NextContextual == BuildContextual \/ RunContextual

\* operations on a provided context value (cases 2 and 3 of withContext)
SpecContextual == Init /\ [][NextContextual]_vars

BuildTyped ==
    \/ Room("createTypedContextualOperation", MaxPerClass) /\ WithContext(NoCtx)
    \/ Room("TypedContextualOperation", MaxPerClass) /\
           \E f \in OfClass("createTypedContextualOperation"),
              s \in ContextSchemas, fn \in ExampleHandlers :
               CreateTypedContextualOperation(f, s, fn)

RunTyped ==
    \/ \E o \in OfClass("TypedContextualOperation"), x \in Inputs, e \in Extras :
           TypedExecute(o, x, e)
    \/ \E o \in OfClass("TypedContextualOperation"), x \in Inputs, e \in Extras :
           TypedHandler(o, x, e)
    \/ \E i \in 1..Len(calls) : ValidateResolve(i)
    \/ \E i \in 1..Len(calls) : TypedResume(i)
    \/ \E i \in 1..Len(calls) : HandlerResume(i)

NextTyped == BuildTyped \/ RunTyped

\* operations of the type-only case (case 1 of withContext)
SpecTyped == Init /\ [][NextTyped]_vars

\* the context arguments of example.ts: none, and {db: ''}
ExampleExtras == {NoExtra, CtxValue("extraDb", [db |-> 7])}

\* execute calls on operations of both cases
RunContext ==
    \/ \E o \in OfClass("ContextualOperation"), x \in Inputs, e \in ExampleExtras :
           ContextualExecute(o, x, e)
    \/ \E o \in OfClass("TypedContextualOperation"), x \in Inputs, e \in ExampleExtras :
           TypedExecute(o, x, e)
    \/ \E i \in 1..Len(calls) : ValidateResolve(i)
    \/ \E i \in 1..Len(calls) : ContextualResume(i)
    \/ \E i \in 1..Len(calls) : TypedResume(i)
    \/ \E i \in 1..Len(calls) : HandlerResume(i)

NextContext == BuildContextual \/ BuildTyped \/ RunContext

\* both kinds of operation side by side
SpecContext == Init /\ [][NextContext]_vars

-----------------------------------------------------------------------------
(* The calls, as the properties speak of them *)

Calls == 1..Len(calls)
Executes == {i \in Calls : calls[i].entry = "execute"}
Directs == {i \in Calls : calls[i].entry = "handler"}
Settled(i) == calls[i].pc = "settled"

\* what the schema of call i's Operation answers for the call's raw input
Answer(i) == Validate(heap[calls[i].op]._schema, calls[i].input)

\* call i has failed because its input did not validate
ValidationFailed(i) ==
    /\ calls[i].entry = "execute"
    /\ Settled(i)
    /\ Truthy(Answer(i).issues)

-----------------------------------------------------------------------------
(* C1: execute never invokes the handler unless the schema's validate has
   returned a value and not issues for this input; when validate returns
   issues the handler is invoked zero times during that call. *)
C1_ValidateBeforeInvoke ==
    \A i \in Executes :
        /\ calls[i].invoked >= 1 =>
              /\ calls[i].validated = 1
              /\ calls[i].result = Answer(i)
              /\ ~Truthy(Answer(i).issues)
        /\ Truthy(Answer(i).issues) => calls[i].invoked = 0

\* one call has failed validation without its handler running, another has
\* had its handler invoked
C1_Witness ==
    \E i, j \in Executes :
        /\ ValidationFailed(i) /\ calls[i].invoked = 0
        /\ Settled(j) /\ calls[j].invoked = 1

(* C2: within one execute call validation strictly precedes the handler: the
   handler is invoked only in a step that finds the call's validation result
   already there, never while a pending result is still pending.  Distinct
   calls are not ordered. *)
C2_ValidationPrecedesHandler ==
    [][\A i \in 1..Len(calls') :
          (/\ calls'[i].entry = "execute"
           /\ calls'[i].invoked > (IF i <= Len(calls) THEN calls[i].invoked ELSE 0))
          => /\ i <= Len(calls)
             /\ calls[i].validated = 1
             /\ calls[i].pc = "validated"
             /\ calls[i].result = Answer(i)]_vars

\* the earlier call still waits for its pending validation result, its handler
\* not invoked, while the later call's handler has been invoked
C2_Witness ==
    \E i, j \in Executes :
        /\ i < j
        /\ calls[i].pc = "validate" /\ calls[i].invoked = 0
        /\ calls[j].invoked = 1

-----------------------------------------------------------------------------
(* Reading the issues back from a failure *)

\* the null that JSON text holds where a path had a symbol
NullKey == [t |-> "null", s |-> "", n |-> 0]

\* an issues array as JSON text can hold it: strings and numbers as they are,
\* null for a symbol
ToJSON(issues) ==
    [k \in 1..Len(issues) |->
        [issues[k] EXCEPT !.path.items =
            [n \in 1..Len(@) |-> IF @[n].t = "symbol" THEN NullKey ELSE @[n]]]]

\* the issues arrays that the schemas return, and what JSON text holds of them
IssueLists ==
    {Validate(s, x).issues.items : s \in Schemas, x \in Inputs}
JsonLists == {ToJSON(l) : l \in IssueLists}

\* JSON.parse of a text that JSON.stringify made: the value the text holds
JSONParse(text) == CHOOSE v \in JsonLists : JSONStringify(v) = text

\* the issues a caller finds in a failure: its `issues` member when it has one,
\* else what its message holds
SurfacedIssues(e) ==
    IF Truthy(e.issues) THEN e.issues.items ELSE JSONParse(e.message)

(* C3: for every invalid input the issues surfaced by the failure of execute
   are exactly the issues the schema's validate returned: same count, same
   order, same content. *)
C3_IssueFidelity ==
    \A i \in Calls :
        ValidationFailed(i) =>
            /\ calls[i].out.kind = "err"
            /\ SurfacedIssues(calls[i].out.err) = Answer(i).issues.items

(* C4: when validate returns issues, execute fails with a failure of the
   ValidationError kind, an error that carries an issues member. *)
C4_ValidationErrorKind ==
    \A i \in Calls :
        ValidationFailed(i) =>
            /\ calls[i].out.kind = "err"
            /\ calls[i].out.err.name = "ValidationError"
            /\ Truthy(calls[i].out.err.issues)

-----------------------------------------------------------------------------
(* C5: a failure raised by the handler during execute, thrown at once or as a
   later rejection, is execute's failure: the same error, not wrapped. *)
C5_HandlerFailureUnchanged ==
    \A i \in Executes :
        calls[i].handled.kind = "err" =>
            /\ Settled(i)
            /\ calls[i].out.kind = "err"
            /\ calls[i].out.err = calls[i].handled.err

\* an execute has settled with the error its handler rejected with after a
\* suspension
C5_Witness ==
    \E i \in Executes :
        /\ Settled(i)
        /\ calls[i].handled = Rejected(TimeoutError)
        /\ calls[i].out.err = TimeoutError

(* C6: when validate returns a value v, execute invokes the handler with
   input = v, the schema's output and not the raw input, and execute's result
   is the handler's result for that invocation. *)
C6_ValidatedValueToHandler ==
    \A i \in Executes :
        ~Truthy(Answer(i).issues) =>
            /\ calls[i].invoked >= 1 =>
                  /\ calls[i].args.input = Answer(i).value
                  /\ calls[i].out = calls[i].handled
            /\ Settled(i) => calls[i].invoked = 1

\* an execute of the raw input 12 has resolved, its handler called with the
\* transformed value 2
C6_Witness ==
    \E i \in Executes :
        /\ Settled(i)
        /\ calls[i].input = 12
        /\ calls[i].args.input = 2
        /\ calls[i].out.kind = "ok"

-----------------------------------------------------------------------------
(* Contexts *)

\* the static call or exported builder that `ref` derives from
Root(ref) == <<ref[1]>>

\* `ref` derives from a handle that Opa.context made
FromFactory(ref) == heap[Root(ref)].cls = "OpaContextBuilderImpl"

\* the context given to Opa.context for that handle
FactoryContext(ref) == heap[Root(ref)]._context

\* call i has incremented the counter of context c and returned it
Incremented(i, c) ==
    /\ heap[calls[i].op]._handler = "push"
    /\ calls[i].args.ctx = c
    /\ calls[i].out.kind = "ok"

\* in this step the handler of call i reads context c and increments its counter
Increments(i, c) ==
    /\ i <= Len(calls)
    /\ calls[i].out.kind = "pending"
    /\ calls'[i].out.kind = "ok"
    /\ heap[calls[i].op]._handler = "push"
    /\ calls'[i].args.ctx = c

(* C7: every builder and Operation derived from Opa.context(C) holds C, and
   every execute of such an Operation passes C as ctx; a handler that
   increments ctx.counter and returns it finds the counter as the caller and
   the earlier handler invocations left it, so that with no write by the
   caller the values returned are 1, 2, ... in turn. *)
C7_SharedContextReference ==
    /\ [](/\ \A o \in Refs : FromFactory(o) => heap[o]._context = FactoryContext(o)
          /\ \A i \in Executes :
                (calls[i].invoked >= 1 /\ FromFactory(calls[i].op)) =>
                    /\ calls[i].args.ctx = FactoryContext(calls[i].op)
                    /\ calls[i].args.hasCtx = (FactoryContext(calls[i].op) # NoCtx)
          /\ writes = 0 =>
                \A c \in CtxRefs :
                    /\ {calls[i].out.value : i \in {j \in Calls : Incremented(j, c)}}
                           = 1..ctx[c].counter
                    /\ Cardinality({j \in Calls : Incremented(j, c)}) = ctx[c].counter)
    /\ [][\A i \in Executes : \A c \in CtxRefs :
             (Increments(i, c) /\ FromFactory(calls[i].op)) =>
                 /\ c = FactoryContext(calls[i].op)
                 /\ calls'[i].out.value = ctx[c].counter + 1
                 /\ ctx'[c].counter = ctx[c].counter + 1]_vars

\* after the caller set the counter to 10, two executes of an Operation from
\* Opa.context(C) have returned 11 and 12
C7_Witness ==
    \E i, j \in Executes :
        /\ FromFactory(calls[i].op) /\ FromFactory(calls[j].op)
        /\ writes = 1
        /\ calls[i].out = Resolved(11)
        /\ calls[j].out = Resolved(12)

(* C8: a direct call operation.handler({input: v}) never calls the schema's
   validate and never fails with a validation failure, also for a v that
   execute would reject; its outcome is the handler's outcome for the
   caller's args. *)
C8_DirectBypassesValidation ==
    \A i \in Directs :
        /\ calls[i].validated = 0
        /\ calls[i].result = NoResult
        /\ calls[i].invoked = 1
        /\ calls[i].args \in DirectArgs
        /\ calls[i].args.input = calls[i].input
        /\ calls[i].out = calls[i].handled
        /\ calls[i].out.err \in {NoErr, SyncError, TimeoutError, TypeError}

\* a direct call with an input that the Operation's schema rejects has resolved
C8_Witness ==
    \E i \in Directs :
        /\ Truthy(Answer(i).issues)
        /\ Settled(i)
        /\ calls[i].out.kind = "ok"

\* the outcome of a handler that reads no context, for the input v alone
OwnOutcome(fn, v) ==
    IF fn = "double" THEN HandlerStart(fn, Args(v, FALSE, NoCtx), ctx).out
    ELSE HandlerFinish(fn, Args(v, FALSE, NoCtx), ctx).out

(* C9: concurrent execute calls on one Operation with valid inputs each settle
   with the result computed from their own input, under every interleaving
   and completion order: each handler is called with its own call's validated
   input, and a handler that reads only its input yields that input's result. *)
C9_NoCrossTalk ==
    \A i \in Executes :
        ~Truthy(Answer(i).issues) =>
            /\ calls[i].invoked >= 1 => calls[i].args.input = Answer(i).value
            /\ (Settled(i) /\ heap[calls[i].op]._handler # "push") =>
                  calls[i].out = OwnOutcome(heap[calls[i].op]._handler, Answer(i).value)

\* two executes of one Operation with different valid inputs overlap: the later
\* one has settled with its own result while the earlier one is still running
C9_Witness ==
    \E i, j \in Executes :
        /\ i < j
        /\ calls[i].op = calls[j].op
        /\ calls[i].input # calls[j].input
        /\ calls[i].pc = "running"
        /\ Settled(j)
        /\ calls[j].out = Resolved(Answer(j).value + 100)

\* the calls that are to have incremented the counter of context c: the valid
\* executes of Operations holding c and the direct calls given c, once settled
Counted(c) ==
    {i \in Calls :
        /\ Settled(i)
        /\ heap[calls[i].op]._handler = "push"
        /\ \/ /\ calls[i].entry = "execute"
              /\ heap[calls[i].op]._context = c
              /\ ~Truthy(Answer(i).issues)
           \/ /\ calls[i].entry = "handler"
              /\ calls[i].args.ctx = c}

(* C10: when the calls on a context-bound Operation run concurrently and each
   handler, after a suspension, increments ctx.counter and appends its input
   to ctx.results, no increment or append is lost under any interleaving: the
   counter is the number of settled calls and results holds one entry for
   each. *)
C10_NoLostUpdate ==
    \A c \in CtxRefs :
        writes = 0 =>
            /\ ctx[c].counter = Cardinality(Counted(c))
            /\ Len(ctx[c].results) = Cardinality(Counted(c))
            /\ \A i \in Counted(c) :
                  \E k \in 1..Len(ctx[c].results) : ctx[c].results[k] = calls[i].args.input

\* two executes of one context-bound Operation have both settled, the later
\* call's input appended first: counter 2, two results
C10_Witness ==
    \E c \in CtxRefs :
        /\ Len(calls) = 2
        /\ \A i \in Calls :
              /\ calls[i].entry = "execute"
              /\ Settled(i)
              /\ heap[calls[i].op]._context = c
              /\ heap[calls[i].op]._handler = "push"
              /\ ~Truthy(Answer(i).issues)
        /\ calls[1].input # calls[2].input
        /\ ctx[c].counter = 2
        /\ ctx[c].results = <<calls[2].args.input, calls[1].args.input>>

-----------------------------------------------------------------------------
(* Reuse of builder stages *)

\* the last call of the chain that made `ref`
LastCall(ref) == ref[Len(ref)]

\* `ref` was returned by the call `call` on its maker
MadeBy(ref, call) ==
    \E n \in 1..Cardinality(Refs) : LastCall(ref) = call \o "#" \o ToString(n)

\* the function that was passed to the handler(fn) call that returned Operation o
HandlerGiven(o) == CHOOSE fn \in Handlers : MadeBy(o, "handler(" \o fn \o ")")

Operations == OfClass("OperationImpl")

\* two Operations that one schema-bound stage returned for two different handlers
Siblings(o1, o2) ==
    /\ o1 \in Operations /\ o2 \in Operations
    /\ Maker(o1) = Maker(o2)
    /\ HandlerGiven(o1) # HandlerGiven(o2)

\* the outcome that the function fn yields for the argument a, where it is
\* fixed by the argument alone
OutcomeOf(fn, a) ==
    IF fn = "double" THEN HandlerStart(fn, a, ctx).out ELSE HandlerFinish(fn, a, ctx).out

\* the handler invocation of call i is one of the function fn
InvocationOf(i, fn) ==
    /\ fn = "double" => calls[i].handled.kind # "pending"
    /\ (calls[i].handled.kind # "pending" /\ (fn # "push" \/ calls[i].args.ctx = NoCtx))
          => calls[i].handled = OutcomeOf(fn, calls[i].args)
    /\ (calls[i].handled.kind # "pending" /\ fn = "push" /\ calls[i].args.ctx # NoCtx)
          => calls[i].handled.kind = "ok" /\ calls[i].handled.value >= 1

(* C11: two Operations built from one schema-bound stage with two different
   handlers are independent: each holds the handler it was built with, every
   invocation made through one is of its own handler, and a step of a call on
   one changes neither the calls on the other, nor the other Operation, nor
   the stage both came from. *)
C11_SiblingOperationsIndependent ==
    /\ [](\A o1, o2 \in Refs :
            Siblings(o1, o2) =>
                /\ heap[o1]._handler = HandlerGiven(o1)
                /\ heap[o2]._handler = HandlerGiven(o2)
                /\ \A i \in Calls :
                      (calls[i].op = o1 /\ calls[i].invoked >= 1) =>
                          /\ calls[i].invoked = 1
                          /\ InvocationOf(i, HandlerGiven(o1)))
    /\ [][\A o1, o2 \in Refs :
            (Siblings(o1, o2) /\ \E i \in 1..Len(calls') :
                                    /\ calls'[i].op = o1
                                    /\ (i > Len(calls) \/ calls'[i] # calls[i]))
            => /\ heap'[o2] = heap[o2]
               /\ heap'[Maker(o1)] = heap[Maker(o1)]
               /\ \A j \in Calls : calls[j].op = o2 => calls'[j] = calls[j]]_vars

\* two Operations of one stage, built with double and with delay, have each
\* executed the input 1 and settled with their own results
C11_Witness ==
    \E i, j \in Executes :
        /\ Siblings(calls[i].op, calls[j].op)
        /\ calls[i].input = 1 /\ calls[j].input = 1
        /\ calls[i].out = Resolved(2)
        /\ calls[j].out = Resolved(101)

\* the schema that was passed to the input(schema) call that returned stage b
SchemaGiven(b) == CHOOSE sc \in Schemas : MadeBy(b, "input(" \o sc \o ")")

(* C12: the schema property of an Operation is, in every state and after any
   execute and handler calls, the very schema that was passed to input(schema)
   for it, with or without a context. *)
C12_SchemaPropertyIsOriginal ==
    \A o \in Operations : GetSchema(o) = SchemaGiven(Maker(o))

\* an Operation bound to a context, built on input(user), has settled an
\* execute and a direct handler call, and its schema property is still user
C12_Witness ==
    \E o \in Operations :
        /\ heap[o]._context \in CtxRefs
        /\ SchemaGiven(Maker(o)) = "user"
        /\ GetSchema(o) = "user"
        /\ \E i \in Executes, j \in Directs :
              /\ calls[i].op = o /\ calls[j].op = o
              /\ Settled(i) /\ Settled(j)

(* C13: the binding mode is fixed when the builder is created: the handler of
   an Operation from Opa.create() or op is invoked by execute with {input} and
   no ctx key, and the handler of an Operation from Opa.context(C) is invoked
   with {input, ctx: C}, for every value C that Opa.context was given. *)
C13_BindingModeFixed ==
    \A i \in Executes :
        calls[i].invoked >= 1 =>
            IF FromFactory(calls[i].op)
            THEN calls[i].args = Args(Answer(i).value, TRUE, FactoryContext(calls[i].op))
            ELSE calls[i].args = Args(Answer(i).value, FALSE, NoCtx)

\* the classes that have a handler(fn) method
WithHandlerMethod == {"OperationWithInputImpl"}

(* C14: no builder transition skips a step: every stage that has a handler(fn)
   method was returned by input(schema) and holds that schema, and every
   Operation was returned by such a stage and holds its schema and a handler;
   the objects before the schema step hold neither. *)
C14_NoSkippedStep ==
    \A o \in Refs :
        /\ heap[o].cls \in WithHandlerMethod =>
              /\ heap[o]._schema \in Schemas
              /\ heap[o]._schema = SchemaGiven(o)
              /\ heap[Maker(o)].cls = "OperationBuilderImpl"
        /\ heap[o].cls = "OperationImpl" =>
              /\ heap[Maker(o)].cls \in WithHandlerMethod
              /\ heap[o]._schema \in Schemas
              /\ heap[o]._schema = heap[Maker(o)]._schema
              /\ heap[o]._handler \in Handlers
        /\ heap[o].cls \notin WithHandlerMethod \cup {"OperationImpl"} =>
              /\ heap[o]._schema = NoSchema
              /\ heap[o]._handler = NoHandler

\* Operations have been built through each public entry point's chain; here
\* one through Opa.context(c).create().operation, holding a schema, has
\* executed an input
C14_Witness ==
    \E o \in Operations :
        /\ Len(o) = 5
        /\ FromFactory(o)
        /\ heap[o]._schema \in Schemas
        /\ \E i \in Executes : calls[i].op = o /\ Settled(i)

Stages == OfClass("OperationWithInputImpl")

(* C15: input(schema) is pure: it returns a new stage holding the schema it
   was given and changes neither the builder it was called on nor any object
   made earlier, so that after input(S1) and input(S2) on one builder the
   Operations of the first stage validate against S1 and those of the second
   against S2. *)
C15_InputIsPure ==
    /\ [](/\ \A b \in Stages : heap[b]._schema = SchemaGiven(b)
          /\ \A i \in Executes :
                /\ heap[calls[i].op]._schema = SchemaGiven(Maker(calls[i].op))
                /\ calls[i].pc # "validate" =>
                      calls[i].result = Validate(SchemaGiven(Maker(calls[i].op)), calls[i].input))
    /\ [][\A b \in DOMAIN heap' :
            (b \notin Refs /\ heap'[b].cls = "OperationWithInputImpl") =>
                /\ DOMAIN heap' = Refs \cup {b}
                /\ \A o \in Refs : heap'[o] = heap[o]]_vars

\* input(trim) and input(user) were called on the one exported op; an
\* Operation of each stage has executed the raw input 12, the first handing
\* its handler 2 and the second 12
C15_Witness ==
    \E i, j \in Executes :
        /\ Maker(Maker(calls[i].op)) = op /\ Maker(Maker(calls[j].op)) = op
        /\ SchemaGiven(Maker(calls[i].op)) = "trim"
        /\ SchemaGiven(Maker(calls[j].op)) = "user"
        /\ calls[i].input = 12 /\ calls[j].input = 12
        /\ calls[i].invoked = 1 /\ calls[i].args.input = 2
        /\ calls[j].invoked = 1 /\ calls[j].args.input = 12

-----------------------------------------------------------------------------
(* Reuse of an Opa.context handle *)

Handles == OfClass("OpaContextBuilderImpl")

\* the builders that the create() calls on handle h returned
CreatedBy(h) == {b \in OfClass("OpaBuilderImpl") : Maker(b) = h}

\* what reading the operation property of builder b returned
OperationOf(b) == {ob \in OfClass("OperationBuilderImpl") : Maker(ob) = b}

(* C16: every create() call on the handle that Opa.context(C) returned yields
   a new builder, leaving the builders made before as they were, and all these
   builders, and what every read of their operation property returns, hold
   the same context C. *)
C16_CreateYieldsBuildersSharingContext ==
    /\ [](\A h \in Handles : \A b \in CreatedBy(h) :
              /\ heap[b]._context = heap[h]._context
              /\ \A ob \in OperationOf(b) : heap[ob]._context = heap[h]._context)
    /\ [][\A b \in DOMAIN heap' :
            (b \notin Refs /\ heap'[b].cls = "OpaBuilderImpl") =>
                /\ DOMAIN heap' = Refs \cup {b}
                /\ \A o \in Refs : heap'[o] = heap[o]]_vars

\* create() was called twice on one handle of Opa.context(ctxA): two builders,
\* the operation property of each read, all four holding ctxA
C16_Witness ==
    \E h \in Handles :
        /\ heap[h]._context = "ctxA"
        /\ Cardinality(CreatedBy(h)) = 2
        /\ \A b \in CreatedBy(h) :
              /\ heap[b]._context = "ctxA"
              /\ \E ob \in OperationOf(b) : heap[ob]._context = "ctxA"

(* C17: an Operation is an immutable triple of schema, handler and optional
   context: it comes into being only as what handler(fn) returns, holding the
   stage's schema and context and the function given, and no step (execute,
   direct handler call, builder call, write to the context object) changes
   any of the three. *)
C17_OperationImmutable ==
    [][/\ \A o \in Operations : o \in DOMAIN heap' /\ heap'[o] = heap[o]
       /\ \A o \in DOMAIN heap' :
             (o \notin Refs /\ heap'[o].cls = "OperationImpl") =>
                 /\ Maker(o) \in Stages
                 /\ \E fn \in Handlers :
                       /\ o = NewRef(Maker(o), "handler(" \o fn \o ")")
                       /\ heap'[o] = Obj("OperationImpl", heap[Maker(o)]._schema, fn,
                                         heap[Maker(o)]._context)]_vars

\* an Operation of Opa.context(ctxA) still holds ctxA and the schema and handler
\* it was built with, after an execute, a direct call that was handed ctxB, a
\* write to ctxA by the caller and a second create() on its handle
C17_Witness ==
    \E o \in Operations :
        /\ heap[o] = Obj("OperationImpl", SchemaGiven(Maker(o)), HandlerGiven(o), "ctxA")
        /\ FactoryContext(o) = "ctxA"
        /\ Cardinality(CreatedBy(Root(o))) = 2
        /\ ctx["ctxA"].counter >= 10
        /\ \E i \in Executes, j \in Directs :
              /\ calls[i].op = o /\ calls[j].op = o
              /\ Settled(i) /\ Settled(j)
              /\ calls[j].args.ctx = "ctxB"

-----------------------------------------------------------------------------
(* C18: when the schema's validate raises, by throwing or by returning a
   Promise that rejects, execute rejects with that very error, nothing is
   recovered, and the handler is not invoked. *)
C18_AdapterFailurePropagates ==
    \A i \in Executes :
        Answer(i).thrown # NoErr =>
            /\ calls[i].invoked = 0
            /\ calls[i].out \in {Pending, Rejected(Answer(i).thrown)}
            /\ Settled(i) <=> calls[i].out = Rejected(Answer(i).thrown)

\* an execute whose schema's Promise rejected has rejected with the adapter's
\* error, its handler never invoked
C18_Witness ==
    \E i \in Executes :
        /\ heap[calls[i].op]._schema = "flaky"
        /\ Settled(i)
        /\ calls[i].out = Rejected(AdapterReject)
        /\ calls[i].invoked = 0

-----------------------------------------------------------------------------
\* call i is an execute whose schema answers with a Promise that resolves to issues
AsyncInvalid(i) ==
    /\ i \in Executes
    /\ Answer(i).promise
    /\ Truthy(Answer(i).issues)

(* C19: with a schema whose validate returns a Promise that later resolves to
   issues, execute never invokes the handler and never resolves; once that
   Promise has resolved, execute eventually rejects with the validation
   failure. *)
C19_AsyncIssuesEventuallyReject ==
    /\ [](\A i \in Calls :
              AsyncInvalid(i) =>
                  /\ calls[i].invoked = 0
                  /\ calls[i].out.kind # "ok"
                  /\ calls[i].pc = "validate" => calls[i].out = Pending)
    /\ \A i \in 1..MaxCalls :
          (i \in Calls /\ AsyncInvalid(i) /\ calls[i].pc = "validated")
              ~> (/\ i \in Calls
                  /\ Settled(i)
                  /\ calls[i].invoked = 0
                  /\ calls[i].out =
                        Rejected(Err("Error", JSONStringify(Answer(i).issues.items), Undefined)))

\* an execute of input 0 on the asynchronous schema has rejected with the two
\* issues as its message, after waiting for the schema's Promise
C19_Witness ==
    \E i \in Executes :
        /\ heap[calls[i].op]._schema = "user"
        /\ calls[i].input = 0
        /\ Settled(i)
        /\ calls[i].invoked = 0
        /\ calls[i].out.kind = "err"
        /\ calls[i].out.err.message = JSONStringify(Validate("user", 0).issues.items)

-----------------------------------------------------------------------------
\* call i is an execute that has rejected, for its input or in its handler
Failed(i) ==
    /\ calls[i].entry = "execute"
    /\ Settled(i)
    /\ calls[i].out.kind = "err"

\* what an execute of o with the valid raw input x hands its handler
OwnArgs(o, x) == HandlerArgs(Validate(GetSchema(o), x).value, heap[o]._context)

(* C20: a failed execute leaves nothing behind: the step in which an execute
   rejects changes no object, no context and no other call; afterwards its
   Operation and those built from the same stage can be executed as before,
   and an execute of a valid input made after the failed call hands its
   handler the same argument and settles with the same result as the handler
   built into its Operation gives for that input alone. *)
C20_FailureLeavesNothingBehind ==
    /\ [](\A i \in Calls :
              Failed(i) =>
                  /\ \A o \in Operations : \A x \in Inputs :
                        (Maker(o) = Maker(calls[i].op) /\ Len(calls) < MaxCalls)
                            => ENABLED Execute(o, x)
                  /\ \A j \in Executes :
                        (/\ j > i
                         /\ Maker(calls[j].op) = Maker(calls[i].op)
                         /\ ~Truthy(Answer(j).issues))
                        => /\ calls[j].invoked >= 1 =>
                                 calls[j].args = OwnArgs(calls[j].op, calls[j].input)
                           /\ Settled(j) =>
                                 calls[j].out =
                                     OutcomeOf(HandlerGiven(calls[j].op),
                                               OwnArgs(calls[j].op, calls[j].input)))
    /\ [][\A i \in Calls :
            (/\ ~Failed(i)
             /\ calls'[i].entry = "execute"
             /\ calls'[i].pc = "settled"
             /\ calls'[i].out.kind = "err")
            => /\ heap' = heap
               /\ ctx' = ctx
               /\ \A j \in Calls \ {i} : calls'[j] = calls[j]]_vars

\* an execute has failed validation; an execute made after it on the sibling
\* Operation of the same stage has resolved with its own handler's result
C20_Witness ==
    \E i, j \in Executes :
        /\ i < j
        /\ Siblings(calls[i].op, calls[j].op)
        /\ ValidationFailed(i)
        /\ calls[i].out.kind = "err"
        /\ Settled(j)
        /\ calls[j].out.kind = "ok"
        /\ calls[j].out = OutcomeOf(HandlerGiven(calls[j].op),
                                     OwnArgs(calls[j].op, calls[j].input))

-----------------------------------------------------------------------------
\* the schema's validate has failed for call i: issues, a throw or a rejection
ValidateFailed(i) ==
    /\ calls[i].result # NoResult
    /\ (Truthy(calls[i].result.issues) \/ calls[i].result.thrown # NoErr)

\* the error that a failed validate makes of call i
ValidateFailure(i) == ValidateInput(calls[i].input, calls[i].result)

(* C21: no error is swallowed, retried or recovered: in each execute call the
   schema's validate is called exactly once and the handler at most once; a
   failure of validate or of the handler is the failure of that call, which
   never reports success after it; and a settled call is never changed. *)
C21_NoErrorSwallowedOrRetried ==
    /\ [](\A i \in Executes :
              /\ calls[i].validated = 1
              /\ calls[i].invoked <= 1
              /\ ValidateFailed(i) =>
                    /\ calls[i].invoked = 0
                    /\ calls[i].out \in {Pending, ValidateFailure(i)}
                    /\ Settled(i) => calls[i].out = ValidateFailure(i)
              /\ calls[i].handled.kind = "err" =>
                    /\ Settled(i)
                    /\ calls[i].out = Rejected(calls[i].handled.err)
              /\ calls[i].out.kind = "ok" =>
                    /\ ~ValidateFailed(i)
                    /\ calls[i].handled = calls[i].out)
    /\ [][\A i \in Calls :
            /\ calls[i].entry = "execute" =>
                  /\ calls'[i].validated = calls[i].validated
                  /\ calls'[i].invoked >= calls[i].invoked
            /\ Settled(i) => calls'[i] = calls[i]]_vars

\* one execute has failed in its handler, which was invoked once, and another
\* in a validate that threw, its handler never invoked
C21_Witness ==
    \E i, j \in Executes :
        /\ Settled(i) /\ calls[i].invoked = 1
        /\ calls[i].handled.kind = "err"
        /\ calls[i].out = calls[i].handled
        /\ Settled(j) /\ calls[j].invoked = 0
        /\ calls[j].result.thrown # NoErr
        /\ calls[j].out = Rejected(calls[j].result.thrown)

-----------------------------------------------------------------------------
\* call i is a direct handler call on an Operation that is bound to a context
DirectOnBound(i) ==
    /\ calls[i].entry = "handler"
    /\ heap[calls[i].op]._context # NoCtx

(* C22: a direct call operation.handler(args) on a context-bound Operation
   hands the caller's args to the handler as they are: the handler sees the
   ctx of the args, or none when the args have none, and the context bound at
   factory time is neither put in nor merged; a handler that writes to its ctx
   writes to the caller's. *)
C22_DirectArgsPassedThrough ==
    /\ [](\A i \in Calls :
              DirectOnBound(i) =>
                  /\ calls[i].invoked = 1
                  /\ calls[i].args = calls[i].given
                  /\ calls[i].given \in DirectArgs
                  /\ (/\ heap[calls[i].op]._handler = "push"
                      /\ Settled(i)
                      /\ ~calls[i].given.hasCtx) => calls[i].out = Rejected(TypeError))
    /\ [][\A i \in Calls : \A c \in CtxRefs :
            (DirectOnBound(i) /\ Increments(i, c)) => calls[i].given.ctx = c]_vars

\* a direct call on an Operation bound to ctxA was handed ctxB: its handler
\* has counted in ctxB and left ctxA alone; another, handed no ctx, has failed
\* reading it
C22_Witness ==
    \E i, j \in Directs :
        /\ calls[i].op = calls[j].op
        /\ heap[calls[i].op]._context = "ctxA"
        /\ heap[calls[i].op]._handler = "push"
        /\ calls[i].given.ctx = "ctxB"
        /\ calls[i].out = Resolved(1)
        /\ ctx["ctxB"].counter = 1 /\ ctx["ctxA"].counter = 0
        /\ ~calls[j].given.hasCtx
        /\ calls[j].out = Rejected(TypeError)

-----------------------------------------------------------------------------
\* the context that was given to Opa.context for the factory that `ref` derives from
GivenToFactory(ref) == heap[Root(ref)]._context

(* C23: in the OpFactory variant the context is bound to the factory: every
   operation from Opa.context(ctx).create().operation.input(schema).handler(fn),
   called with a valid input, invokes fn with {input, ctx}, where ctx is the
   context that Opa.context was given. *)
C23_OpFactoryContextBound ==
    \A i \in Calls :
        (calls[i].entry = "op" /\ calls[i].invoked >= 1) =>
            calls[i].args = Args(Answer(i).value, TRUE, GivenToFactory(calls[i].op))

-----------------------------------------------------------------------------
\* the params {input, schema} that call i's handler is to get: the input is the
\* validated value on execute and the caller's value on the direct path, the
\* schema is the operation's schema property
ExpectedParams(i) ==
    [input |-> IF calls[i].entry = "execute" THEN Answer(i).value ELSE calls[i].input,
     hasCtx |-> FALSE,
     ctx |-> NoCtx,
     schema |-> heap[calls[i].op]._schema]

(* C24: an operation made by defineOperation(schema, handler) invokes its
   handler with {input, schema}, schema being the operation's own schema
   property: on execute with the validated value, on handler(input) with the
   caller's value and without validating; on invalid input execute rejects with
   an Error whose message starts with 'Validation failed' and the handler is
   not invoked. *)
C24_DefinedParams ==
    \A i \in Calls :
        /\ calls[i].invoked <= 1
        /\ calls[i].invoked = 1 => calls[i].args = ExpectedParams(i)
        /\ calls[i].entry = "handler" =>
              calls[i].validated = 0 /\ calls[i].invoked = 1
        /\ (calls[i].entry = "execute" /\ Truthy(Answer(i).issues)) =>
              /\ calls[i].invoked = 0
              /\ Settled(i) =>
                    /\ calls[i].out.kind = "err"
                    /\ calls[i].out.err.name = "Error"
                    /\ calls[i].out.err.message =
                          "Validation failed: " \o JSONStringify(Answer(i).issues.items)
        /\ (calls[i].entry = "execute" /\ Settled(i) /\ ~Truthy(Answer(i).issues)) =>
              calls[i].invoked = 1

\* one operation has taken a transforming input on both paths and has rejected
\* an invalid one
C24_Witness ==
    \E i, j \in Calls :
        /\ calls[i].entry = "execute" /\ calls[i].input = 12 /\ calls[i].invoked = 1
        /\ calls[i].args.input = 2
        /\ calls[i].args.schema = "trim"
        /\ calls[j].entry = "handler" /\ calls[j].input = 12
        /\ calls[j].args.input = 12

-----------------------------------------------------------------------------
\* the schema of call i's Operation accepts the call's input and hands it back
\* unchanged
AcceptedUnchanged(i) ==
    /\ ~Truthy(Answer(i).issues)
    /\ Answer(i).value = calls[i].input

\* an execute call i and a direct call j of one context-free Operation, for one input
SameInputBothWays(i, j) ==
    /\ i \in Executes
    /\ j \in Directs
    /\ calls[i].op = calls[j].op
    /\ heap[calls[i].op]._context = NoCtx
    /\ AcceptedUnchanged(i)
    /\ calls[j].given = Args(calls[i].input, FALSE, NoCtx)

(* C25: for a context-free Operation and an input v that the schema accepts and
   returns unchanged, handler({input: v}) and execute(v) invoke the handler with
   the same args and produce the same result; they differ in that execute has
   called validate and the direct call has not. *)
C25_EntryPointsAgree ==
    \A i, j \in Calls :
        SameInputBothWays(i, j) =>
            /\ calls[i].validated = 1
            /\ calls[j].validated = 0
            /\ calls[i].invoked = 1 => calls[i].args = calls[j].args
            /\ (Settled(i) /\ Settled(j)) => calls[i].out = calls[j].out

\* both calls have answered 2 for the input 1
C25_Witness ==
    \E i, j \in Calls :
        /\ SameInputBothWays(i, j)
        /\ calls[i].input = 1
        /\ Settled(i) /\ Settled(j)
        /\ calls[i].out = Resolved(2)
        /\ calls[j].out = Resolved(2)

-----------------------------------------------------------------------------
\* call i's handler is invoked in this step
Invokes(i) ==
    /\ calls'[i].invoked = 1
    /\ (i > Len(calls) \/ calls[i].invoked = 0)

\* the provided context of call i's operation, and the context argument of the call
Provided(i) == heap[calls'[i].op]._context
Extra(i) == calls'[i].given.ctx

\* c is the merge of the members p and e, e's keys overriding p's
IsMergeOf(c, p, e) ==
    /\ DOMAIN c = DOMAIN p \cup DOMAIN e
    /\ \A k \in DOMAIN e : c[k] = e[k]
    /\ \A k \in DOMAIN p \ DOMAIN e : c[k] = p[k]

(* C26: an operation made by withContext(defineOperation, provided) invokes the
   user handler, on execute(input, extra) and on handler(input, extra), with a
   ctx that is the merge of provided and extra, extra's keys overriding; with no
   extra, ctx is the provided object itself; no call modifies the provided
   object (only the caller's own write changes it). *)
C26_MergedContext ==
    [][/\ \A i \in 1..Len(calls') :
             Invokes(i) =>
                 LET c == calls'[i].args.ctx IN
                 IF TruthyCtx(Extra(i))
                 THEN /\ c.ref \notin CtxRefs
                      /\ c.ref # Extra(i).ref
                      /\ IsMergeOf(c.fields, ctx[Provided(i)], Extra(i).fields)
                 ELSE /\ c.ref = Provided(i)
                      /\ c.fields = ctx[Provided(i)]
       /\ ctx' # ctx => writes' # writes]_vars

\* an execute with {counter: 5} has run its handler on a merge in which counter
\* is 5, a direct call without a context has run it on the provided object, and
\* the provided object has its counter of 0
C26_Witness ==
    \E i, j \in Calls :
        /\ calls[i].entry = "execute"
        /\ calls[i].given.ctx.ref = "extraCounter"
        /\ calls[i].invoked = 1
        /\ calls[i].args.ctx.fields = [counter |-> 5, results |-> <<>>]
        /\ calls[j].entry = "handler"
        /\ calls[j].given.ctx = NoExtra
        /\ calls[j].args.ctx.ref = heap[calls[j].op]._context
        /\ calls[i].op = calls[j].op
        /\ ctx[heap[calls[i].op]._context].counter = 0

(* C27: an operation of the type-only case of withContext takes its context per
   call: execute(input, ctx) validates and then invokes the handler with exactly
   the ctx of that call (handler(input, ctx) likewise, unvalidated), and no call
   leaves anything behind in the operation or in a context for a later call. *)
C27_ContextPerCall ==
    /\ [](\A i \in Calls :
             calls[i].invoked >= 1 =>
                 /\ calls[i].invoked = 1
                 /\ calls[i].args.ctx = calls[i].given.ctx
                 /\ calls[i].args.schema = heap[calls[i].op]._schema
                 /\ (calls[i].entry = "execute" /\ HasStandard(heap[calls[i].op]._schema)) =>
                        /\ calls[i].validated = 1
                        /\ ~Truthy(Answer(i).issues)
                        /\ calls[i].args.input = Answer(i).value)
    /\ [][calls' # calls => (heap' = heap /\ ctx' = ctx)]_vars

\* a call without a context has followed a call with {db} on the same operation
\* and has got undefined
C27_Witness ==
    /\ Len(calls) = 2
    /\ calls[1].op = calls[2].op
    /\ calls[1].given.ctx.ref = "extraDb"
    /\ calls[1].invoked = 1
    /\ calls[1].args.ctx.fields = [db |-> 7]
    /\ calls[2].entry = "execute"
    /\ calls[2].given.ctx = NoExtra
    /\ calls[2].invoked = 1
    /\ calls[2].args.ctx = NoExtra

-----------------------------------------------------------------------------
(* C30: execute of an operation made by withContext invokes the handler only
   after validation has reported no issues when the schema has a '~standard'
   member, and invokes it with the raw input, validate never called, when the
   schema has none. *)
C30_ValidationOnlyWithStandard ==
    \A i \in Executes :
        IF HasStandard(heap[calls[i].op]._schema)
        THEN /\ calls[i].validated = 1
             /\ calls[i].invoked >= 1 =>
                   /\ calls[i].result = Answer(i)
                   /\ ~Truthy(calls[i].result.issues)
                   /\ calls[i].args.input = calls[i].result.value
             /\ Truthy(Answer(i).issues) => calls[i].invoked = 0
        ELSE /\ calls[i].validated = 0
             /\ calls[i].invoked >= 1 => calls[i].args.input = calls[i].input
             /\ Settled(i) => calls[i].invoked = 1

\* the input 0 has reached the handler of an operation on a schema without
\* '~standard', and has been rejected by one with it
C30_Witness ==
    \E i, j \in Executes :
        /\ ~HasStandard(heap[calls[i].op]._schema)
        /\ calls[i].input = 0
        /\ calls[i].invoked = 1
        /\ calls[i].args.input = 0
        /\ HasStandard(heap[calls[j].op]._schema)
        /\ calls[j].input = 0
        /\ Settled(j)
        /\ calls[j].invoked = 0
        /\ calls[j].out.kind = "err"

-----------------------------------------------------------------------------
\* execute is called in this step, as call i
ExecuteCalled(i) ==
    /\ i > Len(calls)
    /\ i <= Len(calls')
    /\ calls'[i].entry = "execute"

\* call i is an execute call whose result has settled
HasSettled(i) ==
    /\ i <= Len(calls)
    /\ calls[i].entry = "execute"
    /\ calls[i].out.kind \in {"ok", "err"}

(* C28: execute never throws out of the call: it hands back a pending result,
   and a validation failure, an exception of validate and a synchronous throw
   of the handler are each the failure of that result; the result of an execute
   call settles at most once, and it settles whenever validate and the handler
   complete. *)
C28_ExecuteAlwaysSettlesOnce ==
    /\ [][\A i \in 1..Len(calls') : ExecuteCalled(i) => calls'[i].out = Pending]_vars
    /\ [](\A i \in Executes :
             /\ calls[i].out.kind # "throw"
             /\ (Settled(i) /\ Answer(i).thrown # NoErr) =>
                    calls[i].out = Rejected(Answer(i).thrown)
             /\ (Settled(i) /\ Truthy(Answer(i).issues)) =>
                    calls[i].out.kind = "err" /\ calls[i].invoked = 0
             /\ calls[i].handled.kind = "throw" =>
                    calls[i].out = Rejected(calls[i].handled.err))
    /\ [][\A i \in Calls :
             HasSettled(i) => calls'[i].out = calls[i].out]_vars
    /\ \A i \in 1..MaxCalls :
           (i <= Len(calls) /\ calls[i].entry = "execute") ~> HasSettled(i)

\* one execute has failed with what validate threw, another with what its
\* handler threw synchronously
C28_Witness ==
    \E i, j \in Executes :
        /\ calls[i].out = Rejected(AdapterThrow)
        /\ calls[j].handled = Thrown(TooLargeError)
        /\ calls[j].out = Rejected(TooLargeError)

-----------------------------------------------------------------------------
(* C29: execute decides by whether the validation result has issues: a result
   with issues (an empty list too, and with a value beside it) makes execute
   fail without invoking the handler, a result without issues makes it invoke
   the handler with the result's value member, whatever that is. *)
C29_IssuesDecide ==
    \A i \in Executes :
        IF Truthy(Answer(i).issues)
        THEN /\ calls[i].invoked = 0
             /\ Settled(i) => calls[i].out.kind = "err"
        ELSE /\ calls[i].invoked >= 1 => calls[i].args.input = Answer(i).value
             /\ Settled(i) => calls[i].invoked = 1

\* an execute of index.ts has failed on the result {issues: []}, and an execute
\* of defineOperation has handed the value of the result {} to its handler
C29_Witness ==
    \E i, j \in Executes :
        /\ heap[calls[i].op].cls = "OperationImpl"
        /\ Answer(i).issues = Arr(<<>>)
        /\ Settled(i)
        /\ calls[i].out.kind = "err"
        /\ calls[i].invoked = 0
        /\ heap[calls[j].op].cls = "Operation"
        /\ heap[calls[j].op]._schema = "neither"
        /\ calls[j].input = 0
        /\ calls[j].invoked = 1
        /\ calls[j].args.input = UndefinedValue

=============================================================================
